---- MODULE Spec2Model ----
(***************************************************************************)
(* Model of WebDocumentGenerator (src/document_generator.py) and of its    *)
(* configuration (src/config.py).                                          *)
(*                                                                         *)
(* A Python str is modelled as a sequence of characters; a character is a  *)
(* one-letter TLA+ string.  Two characters outside ASCII are named by      *)
(* their code points: "U0130" (LATIN CAPITAL LETTER I WITH DOT ABOVE) and  *)
(* "U0307" (COMBINING DOT ABOVE).                                          *)
(***************************************************************************)
EXTENDS Integers, Sequences, FiniteSets, TLC

(***************************************************************************)
(* Characters and the str methods the generator uses.                      *)
(***************************************************************************)
UpperLetters == <<"A","B","C","D","E","F","G","H","I","J","K","L","M",
                  "N","O","P","Q","R","S","T","U","V","W","X","Y","Z">>

LowerLetters == <<"a","b","c","d","e","f","g","h","i","j","k","l","m",
                  "n","o","p","q","r","s","t","u","v","w","x","y","z">>

Digits == <<"0","1","2","3","4","5","6","7","8","9">>

Range(f) == {f[i] : i \in DOMAIN f}

IndexOf(seq, c) == CHOOSE i \in DOMAIN seq : seq[i] = c

UpperSet == Range(UpperLetters)

LowerSet == Range(LowerLetters)

DigitSet == Range(Digits)

\* the other characters of the model
Punctuation == {"\t", " ", "#", "%", "+", "-", ".", "/", ":", "_",
                "U0130", "U0307"}

Chars == UpperSet \cup LowerSet \cup DigitSet \cup Punctuation

\* str.isspace() / regex \s for the characters of the model
IsSpace(c) == c \in {" ", "\t"}

\* regex \d
IsDigit(c) == c \in DigitSet

\* regex \w: alphanumerics and the underscore; U+0307 is a combining mark
\* (category Mn), which \w does not match
IsWord(c) == \/ c \in UpperSet
             \/ c \in LowerSet
             \/ c \in DigitSet
             \/ c \in {"_", "U0130"}

\* str.lower() of one character; U+0130 lower-cases to "i" + U+0307
LowerChar ==
    [c \in Chars |->
        IF c \in UpperSet THEN <<LowerLetters[IndexOf(UpperLetters, c)]>>
        ELSE IF c = "U0130" THEN <<"i", "U0307">>
        ELSE <<c>>]

\* str.upper() of one character
UpperChar ==
    [c \in Chars |->
        IF c \in LowerSet THEN <<UpperLetters[IndexOf(LowerLetters, c)]>>
        ELSE <<c>>]

\* ord(c), the order Python compares strings by
Ord ==
    [c \in Chars |->
        IF c \in UpperSet THEN 64 + IndexOf(UpperLetters, c)
        ELSE IF c \in LowerSet THEN 96 + IndexOf(LowerLetters, c)
        ELSE IF c \in DigitSet THEN 47 + IndexOf(Digits, c)
        ELSE IF c = "\t" THEN 9
        ELSE IF c = " " THEN 32
        ELSE IF c = "#" THEN 35
        ELSE IF c = "%" THEN 37
        ELSE IF c = "+" THEN 43
        ELSE IF c = "-" THEN 45
        ELSE IF c = "." THEN 46
        ELSE IF c = "/" THEN 47
        ELSE IF c = ":" THEN 58
        ELSE IF c = "_" THEN 95
        ELSE IF c = "U0130" THEN 304
        ELSE 775]

\* the concatenation of the strings of a sequence
RECURSIVE Join(_)
Join(parts) == IF parts = <<>> THEN <<>> ELSE Head(parts) \o Join(Tail(parts))

\* str.lower(): character by character, which keeps the length unless some
\* character lower-cases to two
lower(s) == IF \A i \in DOMAIN s : Len(LowerChar[s[i]]) = 1
                THEN [i \in DOMAIN s |-> LowerChar[s[i]][1]]
            ELSE Join([i \in DOMAIN s |-> LowerChar[s[i]]])

\* str.upper()
upper(s) == [i \in DOMAIN s |-> UpperChar[s[i]][1]]

RECURSIVE lstrip(_)
lstrip(s) == IF s # <<>> /\ IsSpace(Head(s)) THEN lstrip(Tail(s)) ELSE s

RECURSIVE rstrip(_)
rstrip(s) == IF s # <<>> /\ IsSpace(s[Len(s)])
                 THEN rstrip(SubSeq(s, 1, Len(s) - 1))
             ELSE s

\* str.strip()
strip(s) == rstrip(lstrip(s))

\* t in s, for two strings
Contains(s, t) == \E i \in 1..(Len(s) - Len(t) + 1) :
                      \A k \in DOMAIN t : s[i + k - 1] = t[k]

\* s < t, for two strings (lexicographic by code point)
RECURSIVE StrLess(_, _)
StrLess(s, t) == IF t = <<>> THEN FALSE
                 ELSE IF s = <<>> THEN TRUE
                 ELSE IF Head(s) = Head(t) THEN StrLess(Tail(s), Tail(t))
                 ELSE Ord[Head(s)] < Ord[Head(t)]

\* the strings over alphabet of length at most n
StrUpTo(alphabet, n) == UNION {[1..k -> alphabet] : k \in 0..n}

(***************************************************************************)
(* clean_column_names                                                      *)
(***************************************************************************)
\* re.sub(r'[^\w\s]', '', s)
RECURSIVE SubNonWordSpace(_)
SubNonWordSpace(s) ==
    IF s = <<>> THEN <<>>
    ELSE IF IsWord(Head(s)) \/ IsSpace(Head(s))
        THEN <<Head(s)>> \o SubNonWordSpace(Tail(s))
    ELSE SubNonWordSpace(Tail(s))

\* s.replace(' ', '_')
ReplaceSpace(s) == [i \in DOMAIN s |-> IF s[i] = " " THEN "_" ELSE s[i]]

\* re.sub(r'_+', '_', s)
RECURSIVE SubUnderscores(_)
SubUnderscores(s) ==
    IF Len(s) < 2 THEN s
    ELSE IF s[1] = "_" /\ s[2] = "_" THEN SubUnderscores(Tail(s))
    ELSE <<Head(s)>> \o SubUnderscores(Tail(s))

\* the body of the loop of clean_column_names, for one column
clean_column_name(col) ==
    SubUnderscores(ReplaceSpace(lower(strip(SubNonWordSpace(col)))))

clean_column_names(columns) ==
    [i \in DOMAIN columns |-> clean_column_name(columns[i])]

(***************************************************************************)
(* Value formatting: format_date_properly and format_percentage            *)
(***************************************************************************)
\* the list ['#N/A', '#NA', 'N/A', 'NA'] of both formatters
NA_VALUES == << <<"#","N","/","A">>, <<"#","N","A">>, <<"N","/","A">>, <<"N","A">> >>

\* ContainsNaValue with the two tokens that start with '#' only
ContainsNaValue_HashOnly(s) == \E i \in 1..2 : Contains(s, NA_VALUES[i])

\* any(na_val in s for na_val in ['#N/A', '#NA', 'N/A', 'NA'])
ContainsNaValue(s) == \E i \in DOMAIN NA_VALUES : Contains(s, NA_VALUES[i])

\* s.split(' ')[0]
RECURSIVE SplitSpaceFirst(_)
SplitSpaceFirst(s) ==
    IF s = <<>> \/ Head(s) = " " THEN <<>>
    ELSE <<Head(s)>> \o SplitSpaceFirst(Tail(s))

\* s.split(sep), for a one-character separator
RECURSIVE Split(_, _)
Split(s, sep) ==
    IF \A i \in DOMAIN s : s[i] # sep THEN <<s>>
    ELSE LET k == CHOOSE i \in DOMAIN s :
                      s[i] = sep /\ \A j \in 1..(i - 1) : s[j] # sep
         IN <<SubSeq(s, 1, k - 1)>> \o Split(SubSeq(s, k + 1, Len(s)), sep)

\* int(s) for a string of decimal digits
RECURSIVE int(_)
int(s) == IF s = <<>> THEN 0
          ELSE 10 * int(SubSeq(s, 1, Len(s) - 1)) + (Ord[s[Len(s)]] - 48)

AllDigits(s) == \A i \in DOMAIN s : IsDigit(s[i])

\* str(n) for n >= 0
RECURSIVE str(_)
str(n) == IF n < 10 THEN <<Digits[n + 1]>>
          ELSE str(n \div 10) \o <<Digits[(n % 10) + 1]>>

\* n rendered with at least w digits, zero padded
RECURSIVE ZeroPad(_, _)
ZeroPad(s, w) == IF Len(s) >= w THEN s ELSE ZeroPad(<<"0">> \o s, w)

\* date_formats with '%m/%d/%Y' ahead of '%d/%m/%Y'
date_formats_MonthFirst ==
    << [sep |-> "-", order |-> <<"Y", "m", "d">>],
       [sep |-> "-", order |-> <<"d", "m", "Y">>],
       [sep |-> "/", order |-> <<"m", "d", "Y">>],
       [sep |-> "/", order |-> <<"d", "m", "Y">>],
       [sep |-> ".", order |-> <<"d", "m", "Y">>],
       [sep |-> ".", order |-> <<"Y", "m", "d">> ] >>

\* date_formats, each as its separator and the order of its directives
date_formats ==
    << [sep |-> "-", order |-> <<"Y", "m", "d">>],
       [sep |-> "-", order |-> <<"d", "m", "Y">>],
       [sep |-> "/", order |-> <<"d", "m", "Y">>],
       [sep |-> "/", order |-> <<"m", "d", "Y">>],
       [sep |-> ".", order |-> <<"d", "m", "Y">>],
       [sep |-> ".", order |-> <<"Y", "m", "d">> ] >>

IsLeap(y) == (y % 4 = 0 /\ y % 100 # 0) \/ y % 400 = 0

DaysInMonth(y, m) == IF m = 2 THEN (IF IsLeap(y) THEN 29 ELSE 28)
                     ELSE IF m \in {4, 6, 9, 11} THEN 30
                     ELSE 31

\* the text one strptime directive accepts: %Y four digits, %m 1..12 and
\* %d 1..31 in one or two digits
DirectiveMatches(d, text) ==
    /\ text # <<>>
    /\ AllDigits(text)
    /\ CASE d = "Y" -> Len(text) = 4
         [] d = "m" -> Len(text) \in {1, 2} /\ int(text) \in 1..12
         [] d = "d" -> Len(text) \in {1, 2} /\ int(text) \in 1..31

\* datetime.strptime(s, fmt): a record with ok = FALSE stands for ValueError
strptime(s, fmt) ==
    LET parts == Split(s, fmt.sep)
        at(d) == parts[CHOOSE i \in 1..3 : fmt.order[i] = d]
    IN IF /\ Len(parts) = 3
          /\ \A i \in 1..3 : DirectiveMatches(fmt.order[i], parts[i])
          /\ int(at("Y")) >= 1
          /\ int(at("d")) <= DaysInMonth(int(at("Y")), int(at("m")))
       THEN [ok |-> TRUE, year |-> int(at("Y")), month |-> int(at("m")),
             day |-> int(at("d"))]
       ELSE [ok |-> FALSE, year |-> 0, month |-> 0, day |-> 0]

\* parsed_date.strftime('%d.%m.%Y')
strftime(date) == ZeroPad(str(date.day), 2) \o <<".">>
                  \o ZeroPad(str(date.month), 2) \o <<".">>
                  \o ZeroPad(str(date.year), 4)

\* the loop over date_formats from position i: the first format that parses
\* wins, and the text is returned as it is when none does
RECURSIVE TryDateFormats(_, _)
TryDateFormats(date_str, i) ==
    IF i > Len(date_formats) THEN date_str
    ELSE IF strptime(date_str, date_formats[i]).ok
        THEN strftime(strptime(date_str, date_formats[i]))
    ELSE TryDateFormats(date_str, i + 1)

format_date_properly(date_value) ==
    IF date_value = <<>> \/ strip(date_value) = <<>> THEN <<>>
    ELSE LET date_str == upper(strip(date_value))
         IN IF ContainsNaValue(date_str) THEN date_str
            ELSE TryDateFormats(SplitSpaceFirst(date_str), 1)

\* re.sub(r'[%\s]', '', s)
RECURSIVE SubPercentSpace(_)
SubPercentSpace(s) ==
    IF s = <<>> THEN <<>>
    ELSE IF Head(s) = "%" \/ IsSpace(Head(s)) THEN SubPercentSpace(Tail(s))
    ELSE <<Head(s)>> \o SubPercentSpace(Tail(s))

\* float(s) for the literals [sign] digits [. digits], [sign] NAN and
\* [sign] INF or INFINITY; a record with ok = FALSE stands for ValueError.
\* A number is kept as sign, integer part and fraction digits.
float(s) ==
    LET signed == s # <<>> /\ Head(s) \in {"-", "+"}
        body   == IF signed THEN Tail(s) ELSE s
        parts  == Split(body, ".")
        whole  == parts[1]
        frac   == IF Len(parts) = 2 THEN parts[2] ELSE <<>>
        neg    == signed /\ Head(s) = "-"
    IN IF upper(body) = <<"N","A","N">>
           THEN [ok |-> TRUE, special |-> "nan", neg |-> FALSE,
                 whole |-> 0, frac |-> <<>>]
       ELSE IF upper(body) \in {<<"I","N","F">>, <<"I","N","F","I","N","I","T","Y">>}
           THEN [ok |-> TRUE, special |-> "inf", neg |-> neg,
                 whole |-> 0, frac |-> <<>>]
       ELSE IF /\ Len(parts) \in {1, 2}
               /\ AllDigits(whole) /\ AllDigits(frac)
               /\ whole \o frac # <<>>
           THEN [ok |-> TRUE, special |-> "", neg |-> neg,
                 whole |-> int(whole), frac |-> frac]
       ELSE [ok |-> FALSE, special |-> "", neg |-> FALSE,
             whole |-> 0, frac |-> <<>>]

\* Hundredths without the rounding: the digits after the second are cut
Hundredths_Truncated(num) ==
    LET f3 == SubSeq(num.frac \o <<"0", "0", "0">>, 1, 3)
    IN num.whole * 100 + int(SubSeq(f3, 1, 2))

\* hundredths of the value of a parsed number, rounded to nearest.  Exact
\* for every literal whose digits after the second decimal are not 5
\* followed by zeros only (there the binary value of the float decides)
Hundredths(num) ==
    LET f3 == SubSeq(num.frac \o <<"0", "0", "0">>, 1, 3)
    IN num.whole * 100 + int(SubSeq(f3, 1, 2))
         + (IF int(SubSeq(f3, 3, 3)) >= 5 THEN 1 ELSE 0)

\* f"{num_value:.2f}"
FormatFixed2(num) ==
    IF num.special = "nan" THEN <<"n","a","n">>
    ELSE (IF num.neg THEN <<"-">> ELSE <<>>)
           \o (IF num.special = "inf" THEN <<"i","n","f">>
               ELSE str(Hundredths(num) \div 100) \o <<".">>
                      \o ZeroPad(str(Hundredths(num) % 100), 2))

format_percentage(value) ==
    IF value = <<>> \/ strip(value) = <<>> THEN <<>>
    ELSE LET value_str   == upper(strip(value))
             clean_value == SubPercentSpace(value_str)
         IN IF ContainsNaValue(value_str) THEN value_str
            ELSE IF clean_value # <<>> /\ clean_value # <<"n", "a", "n">>
                THEN IF float(clean_value).ok
                         THEN FormatFixed2(float(clean_value)) \o <<"%">>
                     ELSE value_str
            ELSE <<>>

(***************************************************************************)
(* Configuration (WebConfig)                                               *)
(***************************************************************************)
\* the default of WebConfig.sheet_name
DefaultSheetName == "5_Arc_List"

\* WebConfig.column_mappings: per field, the candidate column names in
\* priority order
DefaultColumnMappings ==
  [
    product |->
       << <<"p","r","o","d","u","c","t","_","n","a","m","e">>,
          <<"p","r","o","d","u","c","t","n","a","m","e">>,
          <<"p","r","o","d","u","c","t">>,
          <<"n","a","m","e">>,
          <<"p","r","o","d","u","c","t","_","d","e","s","c","r","i","p","t","i","o","n">> >>,
    batch_no |->
       << <<"b","a","t","c","h","_","n","o">>,
          <<"b","a","t","c","h","_","n","o",".">>,
          <<"b","a","t","c","h","n","o">>,
          <<"b","a","t","c","h">>,
          <<"b","a","t","c","h","_","n","u","m","b","e","r">> >>,
    mfg_date |->
       << <<"m","f","g","_","d","a","t","e">>,
          <<"m","a","n","u","f","a","c","t","u","r","i","n","g","_","d","a","t","e">>,
          <<"m","f","g","d","a","t","e">>,
          <<"m","a","n","u","f","a","c","t","u","r","e","_","d","a","t","e">> >>,
    expiry_date |->
       << <<"e","x","p","i","r","y","_","d","a","t","e">>,
          <<"e","x","p","_","d","a","t","e">>,
          <<"e","x","p","i","r","y","d","a","t","e">>,
          <<"e","x","p","i","r","a","t","i","o","n","_","d","a","t","e">> >>,
    yield |->
       << <<"t","o","t","a","l","_","b","a","t","c","h","_","y","i","e","l","d","_","%">>,
          <<"t","o","t","a","l","_","b","a","t","c","h","_","y","i","e","l","d">>,
          <<"b","a","t","c","h","_","y","i","e","l","d","_","%">>,
          <<"y","i","e","l","d","_","%">>,
          <<"y","i","e","l","d">>,
          <<"t","o","t","a","l","_","y","i","e","l","d">> >>,
    accountability |->
       << <<"t","o","t","a","l","_","b","a","t","c","h","_","a","c","c","o","u","n","t","a","b","i","l","i","t","y","_","%">>,
          <<"t","o","t","a","l","_","b","a","t","c","h","_","a","c","c","o","u","n","t","a","b","i","l","i","t","y">>,
          <<"b","a","t","c","h","_","a","c","c","o","u","n","t","a","b","i","l","i","t","y","_","%">>,
          <<"a","c","c","o","u","n","t","a","b","i","l","i","t","y","_","%">>,
          <<"a","c","c","o","u","n","t","a","b","i","l","i","t","y">> >>,
    location |->
       << <<"l","o","c","a","t","i","o","n","_","r","a","c","k","_","s","h","e","l","f">>,
          <<"l","o","c","a","t","i","o","n">>,
          <<"r","a","c","k","_","s","h","e","l","f">>,
          <<"s","t","o","r","a","g","e","_","l","o","c","a","t","i","o","n">>,
          <<"l","o","c","a","t","i","o","n","_","r","a","c","k">>,
          <<"r","a","c","k">> >>,
    remarks |->
       << <<"r","e","m","a","r","k","s">>,
          <<"r","e","m","a","r","k">>,
          <<"c","o","m","m","e","n","t","s">>,
          <<"n","o","t","e">>,
          <<"n","o","t","e","s">> >>,
    sent_to_doc |->
       << <<"s","e","n","t","_","t","o","_","d","o","c","u","m","e","n","t","_","r","o","o","m","_","b","y","_","d","a","t","e">>,
          <<"s","e","n","t","_","t","o","_","d","o","c","u","m","e","n","t","_","r","o","o","m">>,
          <<"d","o","c","u","m","e","n","t","_","r","o","o","m","_","d","a","t","e">>,
          <<"s","e","n","t","_","t","o","_","d","o","c">>,
          <<"d","o","c","_","r","o","o","m","_","d","a","t","e">> >>
  ]

(***************************************************************************)
(* Values.  An Optional is a sequence of length 0 (None, or NaN for a      *)
(* cell) or 1.  A data frame is the record of its cleaned column names and *)
(* its rows, each row the sequence of its cells in column order; loaded    *)
(* is FALSE for self.df = None.                                            *)
(***************************************************************************)
None == <<>>

Some(x) == <<x>>

\* Python truthiness of an Optional[str]: None and '' are falsy
Truthy(opt) == opt # None /\ opt[1] # <<>>

\* self.df = None
NoneDf == [loaded |-> FALSE, columns |-> <<>>, rows |-> <<>>]

\* self.df is None or self.df.empty
DfNoneOrEmpty(d) == ~d.loaded \/ Len(d.rows) = 0 \/ Len(d.columns) = 0

\* na_values=['', 'NULL', 'null', 'NaN'], keep_default_na=False
na_values == { <<>>, <<"N","U","L","L">>, <<"n","u","l","l">>, <<"N","a","N">> }

\* pd.read_excel(..., dtype=str, na_values=...) of one sheet: every cell is
\* kept as text, or becomes NaN when its text is one of na_values
read_excel(sheet) ==
    [loaded  |-> TRUE,
     columns |-> sheet.columns,
     rows    |-> [r \in DOMAIN sheet.rows |->
                     [c \in DOMAIN sheet.rows[r] |->
                         IF sheet.rows[r][c] \in na_values THEN None
                         ELSE Some(sheet.rows[r][c])]]]

\* excel_data.sheet_names
SheetNames(file) == [i \in DOMAIN file.sheets |-> file.sheets[i].name]

SheetNamed(file, name) ==
    file.sheets[CHOOSE i \in DOMAIN file.sheets : file.sheets[i].name = name]

(***************************************************************************)
(* Column resolution                                                       *)
(***************************************************************************)
\* find_column_name with the partial matching ahead of the exact matching
find_column_name_PartialFirst(d, possible_names) ==
    IF DfNoneOrEmpty(d) THEN None
    ELSE LET Partial(c) == \E i \in DOMAIN possible_names :
                               Contains(lower(d.columns[c]),
                                        lower(possible_names[i]))
         IN IF \E c \in DOMAIN d.columns : Partial(c)
                THEN LET c == CHOOSE k \in DOMAIN d.columns :
                                  Partial(k) /\ \A j \in 1..(k - 1) : ~Partial(j)
                     IN Some(d.columns[c])
            ELSE None

\* find_column_name with a partial matching that goes through the
\* candidates in priority order and takes the first header containing one
find_column_name_CandidateOrder(d, possible_names) ==
    IF DfNoneOrEmpty(d) THEN None
    ELSE IF \E i \in DOMAIN possible_names :
                possible_names[i] \in Range(d.columns)
        THEN LET i == CHOOSE k \in DOMAIN possible_names :
                          /\ possible_names[k] \in Range(d.columns)
                          /\ \A j \in 1..(k - 1) :
                                 possible_names[j] \notin Range(d.columns)
             IN Some(possible_names[i])
    ELSE LET Hit(i, c) == Contains(lower(d.columns[c]), lower(possible_names[i]))
             Hits(i)   == {c \in DOMAIN d.columns : Hit(i, c)}
         IN IF \E i \in DOMAIN possible_names : Hits(i) # {}
                THEN LET i == CHOOSE k \in DOMAIN possible_names :
                                  /\ Hits(k) # {}
                                  /\ \A j \in 1..(k - 1) : Hits(j) = {}
                         c == CHOOSE k \in Hits(i) : \A j \in Hits(i) : k <= j
                     IN Some(d.columns[c])
            ELSE None

find_column_name(d, possible_names) ==
    IF DfNoneOrEmpty(d) THEN None
    ELSE IF \E i \in DOMAIN possible_names :
                possible_names[i] \in Range(d.columns)
        THEN LET i == CHOOSE k \in DOMAIN possible_names :
                          /\ possible_names[k] \in Range(d.columns)
                          /\ \A j \in 1..(k - 1) :
                                 possible_names[j] \notin Range(d.columns)
             IN Some(possible_names[i])
    ELSE LET Partial(c) == \E col_lower \in {lower(d.columns[c])} :
                               \E i \in DOMAIN possible_names :
                                   Contains(col_lower, lower(possible_names[i]))
         IN IF \E c \in DOMAIN d.columns : Partial(c)
                THEN LET c == CHOOSE k \in DOMAIN d.columns :
                                  Partial(k) /\ \A j \in 1..(k - 1) : ~Partial(j)
                     IN Some(d.columns[c])
            ELSE None

\* a candidate of the configuration that is no str (a number in the
\* configuration file)
NonStr == <<"<int>">>

\* find_column_name raises: no candidate is a header, and the partial
\* matching reaches name.lower() of a candidate that is no str before a
\* candidate that the first header contains
find_column_name_raises(d, possible_names) ==
    /\ ~DfNoneOrEmpty(d)
    /\ \A i \in DOMAIN possible_names : possible_names[i] \notin Range(d.columns)
    /\ \E j \in DOMAIN possible_names :
          /\ possible_names[j] = NonStr
          /\ \A i \in 1..(j - 1) :
                 /\ possible_names[i] # NonStr
                 /\ ~Contains(lower(d.columns[1]), lower(possible_names[i]))

\* the fields in the order of the dictionary of WebConfig
FieldOrder ==
    <<"product", "batch_no", "mfg_date", "expiry_date", "yield",
      "accountability", "location", "remarks", "sent_to_doc">>

\* column_mappings.items(): the configured fields in their order
ConfiguredFields(mappings) ==
    LET S == {k \in DOMAIN FieldOrder : FieldOrder[k] \in DOMAIN mappings}
    IN [i \in 1..Cardinality(S) |->
           FieldOrder[CHOOSE k \in S : Cardinality({j \in S : j < k}) = i - 1]]

\* the position among the configured fields of the first field whose
\* resolution raises, 0 when none does
FirstRaising(d, mappings) ==
    LET fields == ConfiguredFields(mappings)
        bad    == {k \in DOMAIN fields :
                      find_column_name_raises(d, mappings[fields[k]])}
    IN IF bad = {} THEN 0
       ELSE CHOOSE k \in bad : \A j \in bad : k <= j

\* the column cache when cache_column_mappings raises at the field at
\* position k: the fields before it are assigned, every other entry is kept
cache_column_mappings_raised(d, mappings, cache, k) ==
    LET done == {ConfiguredFields(mappings)[j] : j \in 1..(k - 1)}
    IN [field \in (DOMAIN cache) \cup done |->
           IF field \in done THEN find_column_name(d, mappings[field])
           ELSE cache[field]]

\* the column cache after cache_column_mappings: every field of the
\* configuration is assigned, any other entry of the cache is kept
cache_column_mappings(d, mappings, cache) ==
    [field \in (DOMAIN cache) \cup (DOMAIN mappings) |->
        IF field \in DOMAIN mappings
            THEN find_column_name(d, mappings[field])
        ELSE cache[field]]

\* self.column_cache.get(field)
CacheGet(cache, field) == IF field \in DOMAIN cache THEN cache[field] ELSE None

\* the data frame load_excel_data builds from a sheet: read_excel, then the
\* cleaned column names
LoadedFrame(sheet) ==
    [loaded  |-> TRUE,
     columns |-> clean_column_names(read_excel(sheet).columns),
     rows    |-> read_excel(sheet).rows]

\* the outcome of load_excel_data on a file: what it returns and the
\* sheet name, data frame and column cache it leaves.  The frame is bound
\* as the element of a one-element set, so that it is built once.  An
\* exception of read_excel leaves the sheet name of the fallback; an
\* exception of cache_column_mappings leaves the new frame and the cache as
\* far as it was assigned.
LoadOutcome(file, sheet, mappings, d, cache) ==
    IF ~file.exists \/ ~file.readable
        THEN [ok |-> FALSE, sheet_name |-> sheet, df |-> d,
              column_cache |-> cache]
    ELSE LET name == IF sheet \in Range(SheetNames(file)) THEN sheet
                     ELSE SheetNames(file)[1]
         IN IF ~file.loadable
                THEN [ok |-> FALSE, sheet_name |-> name, df |-> d,
                      column_cache |-> cache]
            ELSE CHOOSE o \in
                { IF FirstRaising(loaded, mappings) = 0
                      THEN [ok |-> TRUE, sheet_name |-> name, df |-> loaded,
                            column_cache |->
                                cache_column_mappings(loaded, mappings, cache)]
                  ELSE [ok |-> FALSE, sheet_name |-> name, df |-> loaded,
                        column_cache |->
                            cache_column_mappings_raised(
                                loaded, mappings, cache,
                                FirstRaising(loaded, mappings))] :
                  loaded \in {LoadedFrame(SheetNamed(file, name))} } : TRUE

(***************************************************************************)
(* Product listing and batch lookup                                        *)
(***************************************************************************)
\* the position of a column name among the columns
ColumnIndex(d, name) == CHOOSE c \in DOMAIN d.columns : d.columns[c] = name

\* Series.astype(str) of one cell of an object column: NaN becomes the
\* text 'nan'
AsTypeStr(cell) == IF cell = None THEN <<"n", "a", "n">> ELSE cell[1]

\* the numbers of a set of row numbers, in ascending order
Ascending(S) ==
    [i \in 1..Cardinality(S) |->
        CHOOSE x \in S : Cardinality({y \in S : y < x}) = i - 1]

\* list.sort() of strings, by insertion
RECURSIVE InsertStr(_, _)
InsertStr(sorted, x) ==
    IF sorted = <<>> THEN <<x>>
    ELSE IF StrLess(x, Head(sorted)) THEN <<x>> \o sorted
    ELSE <<Head(sorted)>> \o InsertStr(Tail(sorted), x)

\* get_unique_products without result.sort()
SortStrings_Unsorted(list) == list

RECURSIVE SortStrings(_)
SortStrings(list) ==
    IF list = <<>> THEN <<>>
    ELSE InsertStr(SortStrings(SubSeq(list, 1, Len(list) - 1)), list[Len(list)])

\* the loop of get_unique_products over the kept values: strip each and
\* keep the first occurrence
RECURSIVE DedupStripped(_, _)
DedupStripped(values, result) ==
    IF values = <<>> THEN result
    ELSE LET product_str == strip(Head(values))
         IN IF product_str # <<>> /\ product_str \notin Range(result)
                THEN DedupStripped(Tail(values), Append(result, product_str))
            ELSE DedupStripped(Tail(values), result)

\* get_unique_products; a cached product column that the data frame does
\* not hold raises KeyError, which the handler turns into []
get_unique_products(d, cache) ==
    IF DfNoneOrEmpty(d) THEN <<>>
    ELSE IF ~Truthy(CacheGet(cache, "product")) THEN <<>>
    ELSE IF CacheGet(cache, "product")[1] \notin Range(d.columns) THEN <<>>
    ELSE LET col  == ColumnIndex(d, CacheGet(cache, "product")[1])
             Kept(r) == /\ d.rows[r][col] # None
                        /\ strip(d.rows[r][col][1]) # <<>>
             kept == Ascending({r \in DOMAIN d.rows : Kept(r)})
             unique_products == [i \in DOMAIN kept |-> d.rows[kept[i]][col][1]]
         IN SortStrings(DedupStripped(unique_products, <<>>))

get_formatted_value(d, cache, batch, field) ==
    LET column_name == CacheGet(cache, field)
    IN IF ~Truthy(column_name) \/ column_name[1] \notin Range(d.columns)
           THEN <<>>
       ELSE LET value == batch[ColumnIndex(d, column_name[1])]
            IN IF value = None \/ value[1] = <<>> THEN <<>>
               ELSE strip(value[1])

\* one Batch Record of process_batch_data
BatchData(d, cache, batch) ==
    [batch_no |-> get_formatted_value(d, cache, batch, "batch_no"),
     mfg_date |->
         format_date_properly(get_formatted_value(d, cache, batch, "mfg_date")),
     expiry_date |->
         format_date_properly(get_formatted_value(d, cache, batch, "expiry_date")),
     total_batch_yield |->
         format_percentage(get_formatted_value(d, cache, batch, "yield")),
     total_batch_accountability |->
         format_percentage(get_formatted_value(d, cache, batch, "accountability")),
     location_rack_shelf |-> get_formatted_value(d, cache, batch, "location"),
     remarks |-> get_formatted_value(d, cache, batch, "remarks"),
     sent_to_document_room |->
         format_date_properly(get_formatted_value(d, cache, batch, "sent_to_doc"))]

process_batch_data(d, cache, product_batches) ==
    [i \in DOMAIN product_batches |-> BatchData(d, cache, product_batches[i])]

\* re.findall(r'\d+', batch_no)[0]: the first maximal run of digits
RECURSIVE TakeDigits(_)
TakeDigits(s) == IF s = <<>> \/ ~IsDigit(Head(s)) THEN <<>>
                 ELSE <<Head(s)>> \o TakeDigits(Tail(s))

RECURSIVE FirstNumber(_)
FirstNumber(s) == IF s = <<>> THEN <<>>
                  ELSE IF IsDigit(Head(s)) THEN TakeDigits(s)
                  ELSE FirstNumber(Tail(s))

get_batch_key(batch) ==
    IF FirstNumber(batch.batch_no) # <<>> THEN int(FirstNumber(batch.batch_no))
    ELSE 0

\* sorted(batches, key=get_batch_key): stable, by insertion after every
\* element whose key is not greater
\* a sort that puts a batch ahead of the batches of the same key
RECURSIVE InsertBatch_BeforeEqual(_, _)
InsertBatch_BeforeEqual(sorted, x) ==
    IF sorted = <<>> THEN <<x>>
    ELSE IF get_batch_key(x) <= get_batch_key(Head(sorted))
        THEN <<x>> \o sorted
    ELSE <<Head(sorted)>> \o InsertBatch_BeforeEqual(Tail(sorted), x)

RECURSIVE InsertBatch(_, _)
InsertBatch(sorted, x) ==
    IF sorted = <<>> THEN <<x>>
    ELSE IF get_batch_key(x) < get_batch_key(Head(sorted)) THEN <<x>> \o sorted
    ELSE <<Head(sorted)>> \o InsertBatch(Tail(sorted), x)

RECURSIVE sort_batches(_)
sort_batches(batches) ==
    IF batches = <<>> THEN <<>>
    ELSE InsertBatch(sort_batches(SubSeq(batches, 1, Len(batches) - 1)),
                     batches[Len(batches)])

\* the mask without .lower() on product_name
ProductMask_NameNotLowered(d, col, product_name) ==
    LET Hit(r) == lower(AsTypeStr(d.rows[r][col])) = product_name
        hits   == Ascending({r \in DOMAIN d.rows : Hit(r)})
    IN [i \in DOMAIN hits |-> d.rows[hits[i]]]

\* the rows selected by the mask of search_product_batches
ProductMask(d, col, product_name) ==
    LET Hit(r) == lower(AsTypeStr(d.rows[r][col])) = lower(product_name)
        hits   == Ascending({r \in DOMAIN d.rows : Hit(r)})
    IN [i \in DOMAIN hits |-> d.rows[hits[i]]]

\* search_product_batches; a cached product column that the data frame
\* does not hold raises KeyError, which the handler turns into None
search_product_batches(d, cache, product_name) ==
    IF DfNoneOrEmpty(d) THEN None
    ELSE IF ~Truthy(CacheGet(cache, "product")) THEN None
    ELSE IF CacheGet(cache, "product")[1] \notin Range(d.columns) THEN None
    ELSE LET col == ColumnIndex(d, CacheGet(cache, "product")[1])
             product_batches == ProductMask(d, col, product_name)
         IN IF product_batches # <<>>
                THEN Some(sort_batches(process_batch_data(d, cache, product_batches)))
            ELSE None

\* preview_product_data with a lookup of its own that does not sort
preview_product_data_OwnLookup(d, cache, product_name) ==
    IF DfNoneOrEmpty(d) THEN None
    ELSE IF ~Truthy(CacheGet(cache, "product")) THEN None
    ELSE IF CacheGet(cache, "product")[1] \notin Range(d.columns) THEN None
    ELSE LET col == ColumnIndex(d, CacheGet(cache, "product")[1])
             product_batches == ProductMask(d, col, product_name)
         IN IF product_batches # <<>>
                THEN Some(process_batch_data(d, cache, product_batches))
            ELSE None

preview_product_data(d, cache, product_name) ==
    search_product_batches(d, cache, product_name)

(***************************************************************************)
(* Document generation.  A template is the Word file at                    *)
(* config.template_file: whether it exists, whether Document() opens it,   *)
(* whether it holds the product name placeholder, and the number of rows   *)
(* of each of its tables.  A document is what doc.save writes: the product *)
(* name put at the placeholder, the rows kept of the first table and the   *)
(* rows added to it.  The output folder is the set of its files.           *)
(***************************************************************************)
\* re.sub(r'[^\w\s-]', '', s)
RECURSIVE SubNonWordSpaceHyphen(_)
SubNonWordSpaceHyphen(s) ==
    IF s = <<>> THEN <<>>
    ELSE IF IsWord(Head(s)) \/ IsSpace(Head(s)) \/ Head(s) = "-"
        THEN <<Head(s)>> \o SubNonWordSpaceHyphen(Tail(s))
    ELSE SubNonWordSpaceHyphen(Tail(s))

\* safe_name of generate_single_document
safe_name(product_name) == strip(SubNonWordSpaceHyphen(product_name))

\* f"{safe_name}_{current_date}.docx"
filename_of(product_name, date) ==
    safe_name(product_name) \o <<"_">> \o date
        \o <<".", "d", "o", "c", "x">>

\* os.path.join(self.config.output_folder, filename), output_folder being
\* "generated"
filepath_of(filename) ==
    <<"g", "e", "n", "e", "r", "a", "t", "e", "d", "/">> \o filename

\* the cells fill_batch_table_with_formatting writes for one batch
column_data(batch) ==
    << batch.batch_no, batch.mfg_date, batch.expiry_date,
       batch.total_batch_yield, batch.total_batch_accountability,
       batch.location_rack_shelf, batch.remarks,
       batch.sent_to_document_room >>

\* fill_product_name_in_header and fill_batch_table_with_formatting on the
\* opened template: the rows of the first table after its first are
\* removed, then one row is added per batch
rendered(template, product_name, batches) ==
    [product_name |-> IF template.placeholder THEN Some(product_name)
                      ELSE None,
     kept_rows    |-> IF template.tables[1] > 1 THEN 1 ELSE template.tables[1],
     rows         |-> [i \in DOMAIN batches |-> column_data(batches[i])]]

\* the result dictionaries of generate_single_document; a key the
\* dictionary does not hold is None
FailureResult(error) ==
    [success |-> FALSE, error |-> error, batch_count |-> 0,
     filename |-> None, filepath |-> None, product |-> None]

SuccessResult(filename, batch_count, product_name) ==
    [success |-> TRUE, error |-> "", batch_count |-> batch_count,
     filename |-> Some(filename), filepath |-> Some(filepath_of(filename)),
     product |-> Some(product_name)]

\* saved without the write
saved_NotWritten(files, filepath, document) == files

\* the output folder after doc.save(filepath)
saved(files, filepath, document) ==
    {f \in files : f.filepath # filepath}
        \cup {[filepath |-> filepath, document |-> document]}

\* generate_single_document: the result it returns and the output folder
\* it leaves.  save_ok is whether doc.save can open the file for writing;
\* Document() of a file that is no Word document and a doc.save that cannot
\* write raise, and the handler at the end turns that into a failure.
generate_single_document(d, cache, template, files, date, product_name, save_ok) ==
    LET batches  == search_product_batches(d, cache, product_name)
        filename == filename_of(product_name, date)
    IN IF ~Truthy(batches)
           THEN [result |-> FailureResult("No batches found for product"),
                 generated |-> files]
       ELSE IF ~template.exists
           THEN [result |-> FailureResult("Template file not found"),
                 generated |-> files]
       ELSE IF ~template.valid
           THEN [result |-> FailureResult("exception"), generated |-> files]
       ELSE IF template.tables = <<>>
           THEN [result |-> FailureResult("Failed to fill document template"),
                 generated |-> files]
       ELSE IF ~save_ok
           THEN [result |-> FailureResult("exception"), generated |-> files]
       ELSE [result |-> SuccessResult(filename, Len(batches[1]), product_name),
             generated |-> saved(files, filepath_of(filename),
                                 rendered(template, product_name, batches[1]))]

(***************************************************************************)
(* State                                                                   *)
(***************************************************************************)
VARIABLES
    excel_file,       \* the workbook at config.excel_file
    sheet_name,       \* config.sheet_name
    column_mappings,  \* config.column_mappings
    df,               \* self.df
    column_cache,     \* self.column_cache
    ret,              \* the last call on the generator and what it returned
    header,           \* a raw column header given to the header cleaning
    cleaned,          \* the results of cleaning header, then each result
    raw_value,        \* a raw cell text given to the value formatters
    date_out,         \* Optional: what format_date_properly returned for it
    pct_out,          \* Optional: what format_percentage returned for it
    template_file,    \* the Word file at config.template_file
    generated,        \* the files of the output folder
    session           \* st.session_state and the locals of the bulk loop

vars == <<excel_file, sheet_name, column_mappings, df, column_cache, ret,
          header, cleaned, raw_value, date_out, pct_out,
          template_file, generated, session>>

appVars == <<template_file, generated, session>>

repoVars == <<excel_file, sheet_name, column_mappings, df, column_cache, ret>>

(***************************************************************************)
(* Bounds and input pools                                                  *)
(***************************************************************************)
MaxRows == 3

MaxCols == 2

MaxHeaderLen == 3

MaxCleanPasses == 2

MaxFreeLen == 3

MaxPad == 1

\* entries of the generation history of a session
MaxHistory == 3

\* clicks on "Initialize Application" in a session
MaxInitializations == 1

\* rows of a workbook for the lookups, as product, batch number and
\* manufacturing date texts
LookupRows ==
    { <<<<"A","s","p","i","r","i","n">>, <<"B","-","1","2">>, <<"2","0","2","4","-","0","3","-","0","5">>>>,
      <<<<"a","s","p","i","r","i","n">>, <<"B","-","2">>, <<>>>>,
      <<<<"A","S","P","I","R","I","N">>, <<"B","-","1","0","0">>, <<"0","1","/","0","2","/","2","0","2","4">>>>,
      <<<<"A","s","p","i","r","i","n">>, <<"2","-","B">>, <<"n","/","a">>>>,
      <<<<" ","A","s","p","i","r","i","n"," ">>, <<"B","-","3">>, <<>>>>,
      <<<<>>, <<"X">>, <<>>>>,
      <<<<" "," ">>, <<"A","1">>, <<"n","o","t","-","a","-","d","a","t","e">>>> }

\* column layouts of these workbooks: the raw header of each column and
\* which text of a row it holds.  Here and in ResolveHeaders the cleaned
\* names of the headers of a workbook are distinct, so that df[column] is
\* one column.
LookupLayouts ==
    { << [raw |-> <<"B","a","t","c","h"," ","N","o",".">>, cell |-> 2],
         [raw |-> <<"P","r","o","d","u","c","t"," ","N","a","m","e">>, cell |-> 1],
         [raw |-> <<"M","f","g"," ","D","a","t","e">>, cell |-> 3] >>,
      << [raw |-> <<"Q","t","y">>, cell |-> 1],
         [raw |-> <<"B","a","t","c","h"," ","N","o",".">>, cell |-> 2] >> }

\* a file at config.excel_file: whether it exists, whether pd.ExcelFile
\* opens it, whether pd.read_excel with engine='openpyxl' reads it, and its
\* sheets
Workbook(name, columns, rows) ==
    [exists |-> TRUE, readable |-> TRUE, loadable |-> TRUE,
     sheets |-> << [name |-> name, columns |-> columns, rows |-> rows] >>]

MissingFile ==
    [exists |-> FALSE, readable |-> FALSE, loadable |-> FALSE, sheets |-> <<>>]

UnreadableFile ==
    [exists |-> TRUE, readable |-> FALSE, loadable |-> FALSE, sheets |-> <<>>]

LookupFiles ==
    { Workbook(DefaultSheetName,
               [c \in DOMAIN layout |-> layout[c].raw],
               [r \in DOMAIN rows |->
                   [c \in DOMAIN layout |-> rows[r][layout[c].cell]]]) :
        layout \in LookupLayouts,
        rows \in UNION {[1..n -> LookupRows] : n \in 0..MaxRows} }
      \cup {MissingFile, UnreadableFile}

\* product names looked up
ProductNames ==
    { <<"A","s","p","i","r","i","n">>, <<"A","S","P","I","R","I","N">>, <<"a","s","p","i","r","i","n">>, <<" ","A","s","p","i","r","i","n"," ">>, <<"Z","i","n","c">>, <<"n","a","n">>, <<" "," ">> }

\* raw headers of the workbooks for the column resolution
ResolveHeaders ==
    { <<"P","r","o","d","u","c","t"," ","N","a","m","e">>, <<"P","r","o","d","u","c","t">>, <<"N","a","m","e">>, <<"P","r","o","d","u","c","t"," ","C","o","d","e">>, <<"I","t","e","m"," ","N","a","m","e">>,
      <<"B","a","t","c","h"," ","N","o",".">>, <<"B","a","t","c","h">>, <<"O","l","d"," ","B","a","t","c","h"," ","N","u","m","b","e","r">>, <<"Y","i","e","l","d"," ","%">>, <<"Q","t","y">> }

IsInjective(f) == \A i, j \in DOMAIN f : f[i] = f[j] => i = j

ResolveColumns ==
    { cols \in UNION {[1..n -> ResolveHeaders] : n \in 1..MaxCols} :
          IsInjective(cols) }

ResolveFiles ==
    UNION { { Workbook(name, cols, rows) :
                name \in {DefaultSheetName, "Sheet1"},
                rows \in {<<>>, <<[c \in DOMAIN cols |-> <<"x">>]>>} } :
            cols \in ResolveColumns }
      \cup {MissingFile, UnreadableFile}

\* rows of the workbooks of a session, as product and batch number texts:
\* three products, of which " Lead " is listed as "Lead" and not found
\* under that name, and "+Zinc" and "Zinc" differ in a character that
\* safe_name removes
SessionRows ==
    << <<<<"+","Z","i","n","c">>, <<"B","-","2">>>>,
       <<<<" ","L","e","a","d"," ">>, <<"B","-","3">>>>,
       <<<<"Z","i","n","c">>, <<"B","-","1","0">>>>,
       <<<<"Z","i","n","c">>, <<"B","-","1">>>> >>

SessionColumns == << <<"P","r","o","d","u","c","t"," ","N","a","m","e">>, <<"B","a","t","c","h"," ","N","o",".">> >>

\* the sub-lists of a list, in list order
SubLists(list) ==
    { [i \in 1..Cardinality(S) |-> list[Ascending(S)[i]]] :
        S \in SUBSET DOMAIN list }

\* the uploaded workbooks, as written to data/: any of these rows, or a
\* file that is no workbook
SessionFiles ==
    { Workbook(DefaultSheetName, SessionColumns, rows) :
        rows \in SubLists(SessionRows) }
      \cup {UnreadableFile}

\* the uploaded templates: a file that is no Word document, a document
\* without a table, and documents whose first table has one row or three
SessionTemplates ==
    { [exists |-> TRUE, valid |-> FALSE, placeholder |-> FALSE, tables |-> <<>>],
      [exists |-> TRUE, valid |-> TRUE, placeholder |-> TRUE, tables |-> <<>>],
      [exists |-> TRUE, valid |-> TRUE, placeholder |-> TRUE, tables |-> <<1>>],
      [exists |-> TRUE, valid |-> TRUE, placeholder |-> FALSE, tables |-> <<3, 1>>] }

\* datetime.now().strftime("%Y-%m-%d") during the session
current_date == <<"2","0","2","4","-","0","3","-","0","5">>

\* the workbooks put at config.excel_file between loads: different
\* headers, no rows, a file pd.ExcelFile cannot open, no file, and a file
\* pd.ExcelFile opens (with a sheet of another name) and read_excel cannot
\* read
ReloadFiles ==
    { Workbook(DefaultSheetName,
               << <<"P","r","o","d","u","c","t"," ","N","a","m","e">>, <<"B","a","t","c","h"," ","N","o",".">>, <<"R","e","m","a","r","k","s">> >>,
               << << <<"Z","i","n","c">>, <<"B","-","1","0">>, <<"o","k">> >>,
                  << <<"z","i","n","c">>, <<"B","-","2">>, <<>> >> >>),
      Workbook("Sheet1",
               << <<"I","t","e","m"," ","N","a","m","e">>, <<"O","l","d"," ","B","a","t","c","h">> >>,
               << << <<"I","r","o","n">>, <<"B","-","2">> >> >>),
      Workbook(DefaultSheetName,
               << <<"P","r","o","d","u","c","t"," ","N","a","m","e">> >>, <<>>),
      UnreadableFile,
      MissingFile,
      [exists |-> TRUE, readable |-> TRUE, loadable |-> FALSE,
       sheets |-> << [name |-> "Sheet1", columns |-> <<>>, rows |-> <<>>] >>] }

\* the candidate configurations set between loads: the default one, one
\* without the field remarks, one with other candidates for the product,
\* and two whose candidates of the batch number or of the product start
\* with a number
ReloadMappings ==
    { DefaultColumnMappings,
      [field \in (DOMAIN DefaultColumnMappings) \ {"remarks"} |->
          DefaultColumnMappings[field]],
      [DefaultColumnMappings EXCEPT !.product = << <<"i","t","e","m">> >>],
      [DefaultColumnMappings EXCEPT !.batch_no = <<NonStr>> \o @],
      [DefaultColumnMappings EXCEPT !.product = <<NonStr>> \o @] }

\* raw headers given to the header cleaning
HeaderAlphabet == {"A", "b", "1", " ", "_", "-", "\t", "U0130"}

HeaderInputs ==
    StrUpTo(HeaderAlphabet, MaxHeaderLen)
      \cup { <<"B","a","t","c","h"," ","N","o",".">>, <<"T","o","t","a","l"," ","B","a","t","c","h"," ","Y","i","e","l","d"," ","%">>, <<" ","M","f","g"," "," ","D","a","t","e"," ">> }

\* raw cell texts given to the value formatters: free text, and three
\* numbers joined by a date separator, with spaces around and a time after
FreeAlphabet == {"n", "a", "N", "A", "/", "#", " ", "1", "7", ".", "%", "-"}

DateParts == { <<"2","0","2","4">>, <<"2","0","2","3">>, <<"0","1">>, <<"0","2">>, <<"0","3">>, <<"0","5">>, <<"5">>, <<"1","3">>, <<"2","9">> }

DateTexts ==
    { a \o <<sep>> \o b \o <<sep>> \o c :
        a \in DateParts, b \in DateParts, c \in DateParts,
        sep \in {"-", "/", "."} }

Spaces(n) == [i \in 1..n |-> " "]

ValueInputs ==
    StrUpTo(FreeAlphabet, MaxFreeLen)
      \cup { Spaces(n) \o d \o t \o Spaces(m) :
               n \in 0..MaxPad, m \in 0..MaxPad, d \in DateTexts,
               t \in { <<>>, <<" ","1","0",":","3","0",":","0","0">> } }
      \cup { <<"n","o","t","-","a","-","d","a","t","e">>, <<"h","e","l","l","o"," ","w","o","r","l","d">>, <<"N","/","A">>, <<"#","N","/","A">>, <<"n","/","a"," ","x">>, <<"n","a","n">>,
             <<"9","8",".","5","%">>, <<" "," ","9","7"," "," ">>, <<"1","2",".","3","4","6">>, <<"-","0",".","5"," ","%">>, <<"a","b","c">>, <<"i","n","f">>,
             <<"2","0","2","4","-","0","3","-","0","5">>, <<"0","1","/","0","2","/","2","0","2","4">>, <<"n","a">> }

(***************************************************************************)
(* Initial states: the state after WebDocumentGenerator(config)            *)
(***************************************************************************)
\* ret before any call: op names the call, field and product_name are its
\* argument, and ok, column, products, batches and result hold what it
\* returned.
\* Every field keeps one type over all calls.
NoCall == [op |-> "__init__", field |-> "", product_name |-> <<>>,
           ok |-> FALSE, column |-> None, products |-> <<>>, batches |-> None,
           result |-> FailureResult("")]

\* __init__ with the default configuration and the workbook file: df = None,
\* column_cache = {}, then load_excel_data()
Constructed(file) ==
    \E o \in {LoadOutcome(file, DefaultSheetName, DefaultColumnMappings,
                         NoneDf, <<>>)} :
       /\ excel_file = file
       /\ column_mappings = DefaultColumnMappings
       /\ sheet_name = o.sheet_name
       /\ df = o.df
       /\ column_cache = o.column_cache
       /\ ret = NoCall

NoHeaderInput == /\ header = <<>>
                 /\ cleaned = <<>>

NoValueInput == /\ raw_value = <<>>
                /\ date_out = None
                /\ pct_out = None

\* the template of a configuration that names no existing file
TemplateMissing ==
    [exists |-> FALSE, valid |-> FALSE, placeholder |-> FALSE, tables |-> <<>>]

\* init_session_state, and no bulk run yet
NoSessionState ==
    [data_loaded |-> FALSE, message |-> "", products |-> <<>>,
     selected_products |-> <<>>, generation_history |-> <<>>,
     running |-> FALSE, status_text |-> <<>>, results |-> <<>>,
     successful |-> <<>>, failed |-> <<>>, initializations |-> 0]

NoSession == /\ template_file = TemplateMissing
             /\ generated = {}
             /\ session = NoSessionState

Init == /\ \E file \in LookupFiles : Constructed(file)
        /\ NoHeaderInput
        /\ NoValueInput
        /\ NoSession

InitResolve == /\ \E file \in ResolveFiles : Constructed(file)
               /\ NoHeaderInput
               /\ NoValueInput
               /\ NoSession

InitClean == /\ Constructed(MissingFile)
             /\ header \in HeaderInputs
             /\ cleaned = <<>>
             /\ NoValueInput
             /\ NoSession

InitFormat == /\ Constructed(MissingFile)
              /\ NoHeaderInput
              /\ raw_value \in ValueInputs
              /\ date_out = None
              /\ pct_out = None
              /\ NoSession

InitReload == /\ \E file \in ReloadFiles : Constructed(file)
              /\ NoHeaderInput
              /\ NoValueInput
              /\ NoSession

\* a session of the application before its initialisation: doc_generator
\* is None, so there is no data frame and no column cache yet
InitSession == /\ excel_file = MissingFile
               /\ sheet_name = DefaultSheetName
               /\ column_mappings = DefaultColumnMappings
               /\ df = NoneDf
               /\ column_cache = <<>>
               /\ ret = NoCall
               /\ NoHeaderInput
               /\ NoValueInput
               /\ NoSession

(***************************************************************************)
(* Actions                                                                 *)
(***************************************************************************)
load_excel_data ==
    \E o \in {LoadOutcome(excel_file, sheet_name, column_mappings, df,
                         column_cache)} :
       /\ sheet_name' = o.sheet_name
       /\ df' = o.df
       /\ column_cache' = o.column_cache
       /\ ret' = [NoCall EXCEPT !.op = "load_excel_data", !.ok = o.ok]
       /\ UNCHANGED <<appVars, excel_file, column_mappings, header, cleaned,
                      raw_value, date_out, pct_out>>

FindColumnName(field) ==
    /\ ret' = [NoCall EXCEPT
                  !.op = "find_column_name",
                  !.field = field,
                  !.column = find_column_name(df, column_mappings[field])]
    /\ UNCHANGED <<appVars, excel_file, sheet_name, column_mappings, df, column_cache,
                   header, cleaned, raw_value, date_out, pct_out>>

GetUniqueProducts ==
    /\ ret' = [NoCall EXCEPT
                  !.op = "get_unique_products",
                  !.products = get_unique_products(df, column_cache)]
    /\ UNCHANGED <<appVars, excel_file, sheet_name, column_mappings, df, column_cache,
                   header, cleaned, raw_value, date_out, pct_out>>

SearchProductBatches(product_name) ==
    /\ ret' = [NoCall EXCEPT
                  !.op = "search_product_batches",
                  !.product_name = product_name,
                  !.batches = search_product_batches(df, column_cache,
                                                     product_name)]
    /\ UNCHANGED <<appVars, excel_file, sheet_name, column_mappings, df, column_cache,
                   header, cleaned, raw_value, date_out, pct_out>>

PreviewProductData(product_name) ==
    /\ ret' = [NoCall EXCEPT
                  !.op = "preview_product_data",
                  !.product_name = product_name,
                  !.batches = preview_product_data(df, column_cache,
                                                   product_name)]
    /\ UNCHANGED <<appVars, excel_file, sheet_name, column_mappings, df,
                   column_cache, header, cleaned, raw_value, date_out, pct_out>>

\* clean_column_names on the header, or on what the last cleaning returned
CleanColumnName ==
    /\ Len(cleaned) < MaxCleanPasses
    /\ cleaned' = Append(cleaned,
                         clean_column_name(IF cleaned = <<>> THEN header
                                           ELSE cleaned[Len(cleaned)]))
    /\ UNCHANGED <<appVars, repoVars, header, raw_value, date_out, pct_out>>

FormatDateProperly ==
    /\ date_out = None
    /\ date_out' = Some(format_date_properly(raw_value))
    /\ UNCHANGED <<appVars, repoVars, header, cleaned, raw_value, pct_out>>

FormatPercentage ==
    /\ pct_out = None
    /\ pct_out' = Some(format_percentage(raw_value))
    /\ UNCHANGED <<appVars, repoVars, header, cleaned, raw_value, date_out>>

\* another file is written to the path config.excel_file
ReplaceFile(file) ==
    /\ file # excel_file
    /\ excel_file' = file
    /\ UNCHANGED <<appVars, sheet_name, column_mappings, df, column_cache,
                   ret, header, cleaned, raw_value, date_out, pct_out>>

\* config.column_mappings is set to another candidate configuration
SetColumnMappings(mappings) ==
    /\ mappings # column_mappings
    /\ column_mappings' = mappings
    /\ UNCHANGED <<appVars, excel_file, sheet_name, df, column_cache,
                   ret, header, cleaned, raw_value, date_out, pct_out>>

\* WebDocumentGenerator(WebConfig(excel_file=file, ...)) followed by
\* get_unique_products(), for each workbook of a session: what the load
\* returned and left, and the products listed
NewGenerator ==
    [file \in SessionFiles |->
        CHOOSE g \in
            { [ok |-> o.ok, sheet_name |-> o.sheet_name, df |-> o.df,
               column_cache |-> o.column_cache,
               products |-> get_unique_products(o.df, o.column_cache)] :
              o \in {LoadOutcome(file, DefaultSheetName,
                                  DefaultColumnMappings, NoneDf, <<>>)} } :
            TRUE]

\* "Initialize Application": a new WebConfig and WebDocumentGenerator for
\* the uploaded files, data_loaded = True, the product list, the success
\* message; then the rerun of the page, whose product selection keeps the
\* ticked products that are still listed (and is left alone when nothing
\* is listed)
InitializeApplication(file, template) ==
    /\ ~session.running
    /\ session.initializations < MaxInitializations
    /\ \E o \in {NewGenerator[file]} :
         \E products \in {o.products} :
            /\ excel_file' = file
            /\ template_file' = template
            /\ column_mappings' = DefaultColumnMappings
            /\ sheet_name' = o.sheet_name
            /\ df' = o.df
            /\ column_cache' = o.column_cache
            /\ ret' = [NoCall EXCEPT !.op = "get_unique_products",
                                     !.products = products]
            /\ session' =
                  [session EXCEPT
                     !.data_loaded = TRUE,
                     !.initializations = @ + 1,
                     !.message = "Application initialized successfully!",
                     !.products = products,
                     !.selected_products =
                         IF products = <<>> THEN @
                         ELSE SelectSeq(products,
                                        LAMBDA p : p \in Range(session.selected_products))]
    /\ UNCHANGED <<generated, header, cleaned, raw_value, date_out, pct_out>>

\* ticking products in the Product Selection tab
SelectProducts(selected) ==
    /\ session.data_loaded
    /\ ~session.running
    /\ session.products # <<>>
    /\ selected \in SubLists(session.products)
    /\ selected # session.selected_products
    /\ session' = [session EXCEPT !.selected_products = selected]
    /\ UNCHANGED <<repoVars, template_file, generated,
                   header, cleaned, raw_value, date_out, pct_out>>

\* "Generate Bulk Documents": results = [] before the loop
BulkStart ==
    /\ session.data_loaded
    /\ ~session.running
    /\ session.selected_products # <<>>
    /\ Len(session.generation_history) + Len(session.selected_products)
          <= MaxHistory
    /\ session' = [session EXCEPT !.running = TRUE, !.results = <<>>,
                                  !.status_text = <<>>,
                                  !.successful = <<>>, !.failed = <<>>]
    /\ UNCHANGED <<repoVars, template_file, generated,
                   header, cleaned, raw_value, date_out, pct_out>>

\* BulkStep with a loop that ends at the first failed result
BulkStep_AbortOnFailure ==
    /\ session.running
    /\ Len(session.results) < Len(session.selected_products)
    /\ \E product \in {session.selected_products[Len(session.results) + 1]},
          save_ok \in BOOLEAN :
         \E o \in {generate_single_document(df, column_cache, template_file,
                                            generated, current_date,
                                            product, save_ok)} :
            /\ generated' = o.generated
            /\ ret' = [NoCall EXCEPT !.op = "generate_single_document",
                                     !.product_name = product,
                                     !.result = o.result]
            /\ session' =
                  [session EXCEPT
                     !.status_text = Append(@, product),
                     !.results = Append(@, o.result),
                     !.running = o.result.success,
                     !.failed = IF o.result.success THEN @ ELSE <<o.result>>,
                     !.generation_history =
                         IF o.result.success
                             THEN Append(@, [product  |-> product,
                                             batches  |-> o.result.batch_count,
                                             filename |-> o.result.filename[1],
                                             type     |-> "bulk"])
                         ELSE @]
    /\ UNCHANGED <<excel_file, sheet_name, column_mappings, df, column_cache,
                   template_file, header, cleaned, raw_value, date_out, pct_out>>

\* one iteration of the bulk loop: generate_single_document for the next
\* selected product, its result appended, the history extended on success
BulkStep ==
    /\ session.running
    /\ Len(session.results) < Len(session.selected_products)
    /\ \E product \in {session.selected_products[Len(session.results) + 1]},
          save_ok \in BOOLEAN :
         \E o \in {generate_single_document(df, column_cache, template_file,
                                            generated, current_date,
                                            product, save_ok)} :
            /\ generated' = o.generated
            /\ ret' = [NoCall EXCEPT !.op = "generate_single_document",
                                     !.product_name = product,
                                     !.result = o.result]
            /\ session' =
                  [session EXCEPT
                     !.status_text = Append(@, product),
                     !.results = Append(@, o.result),
                     !.generation_history =
                         IF o.result.success
                             THEN Append(@, [product  |-> product,
                                             batches  |-> o.result.batch_count,
                                             filename |-> o.result.filename[1],
                                             type     |-> "bulk"])
                         ELSE @]
    /\ UNCHANGED <<excel_file, sheet_name, column_mappings, df, column_cache,
                   template_file, header, cleaned, raw_value, date_out, pct_out>>

\* after the loop: the successful and the failed results are reported
BulkEnd ==
    /\ session.running
    /\ Len(session.results) = Len(session.selected_products)
    /\ session' = [session EXCEPT
                     !.running = FALSE,
                     !.successful = SelectSeq(session.results,
                                              LAMBDA r : r.success),
                     !.failed = SelectSeq(session.results,
                                          LAMBDA r : ~r.success)]
    /\ UNCHANGED <<repoVars, template_file, generated,
                   header, cleaned, raw_value, date_out, pct_out>>

(***************************************************************************)
(* Specifications                                                          *)
(***************************************************************************)
\* product listing and batch lookup on a loaded workbook
Next == \/ load_excel_data
        \/ GetUniqueProducts
        \/ \E product_name \in ProductNames : SearchProductBatches(product_name)

Spec == Init /\ [][Next]_vars

\* column resolution on workbooks of varied headers
NextResolve == \/ load_excel_data
               \/ \E field \in DOMAIN column_mappings : FindColumnName(field)

SpecResolve == InitResolve /\ [][NextResolve]_vars

\* header cleaning
NextClean == CleanColumnName

SpecClean == InitClean /\ [][NextClean]_vars

\* value formatting
NextFormat == FormatDateProperly \/ FormatPercentage

SpecFormat == InitFormat /\ [][NextFormat]_vars

\* loads and lookups on one generator whose file and candidate
\* configuration change between the loads
NextReload == \/ load_excel_data
              \/ \E file \in ReloadFiles : ReplaceFile(file)
              \/ \E mappings \in ReloadMappings : SetColumnMappings(mappings)
              \/ GetUniqueProducts
              \/ \E product_name \in ProductNames :
                    SearchProductBatches(product_name)
              \/ \E product_name \in ProductNames :
                    PreviewProductData(product_name)

SpecReload == InitReload /\ [][NextReload]_vars

\* a session of the application: initialisation, product selection and
\* bulk generation
NextSession == \/ \E file \in SessionFiles, template \in SessionTemplates :
                     InitializeApplication(file, template)
               \/ \E selected \in SubLists(session.products) :
                     SelectProducts(selected)
               \/ BulkStart
               \/ BulkStep
               \/ BulkEnd

SpecSession == InitSession /\ [][NextSession]_vars

(***************************************************************************)
(* Properties                                                              *)
(***************************************************************************)
Min(S) == CHOOSE x \in S : \A y \in S : x <= y

\* the product column is resolved on a data frame that has rows
ProductResolved == ~DfNoneOrEmpty(df) /\ Truthy(CacheGet(column_cache, "product"))

\* the cells of the resolved product column, in row order
ProductCells ==
    IF ProductResolved
        THEN [r \in DOMAIN df.rows |->
                 df.rows[r][ColumnIndex(df, column_cache["product"][1])]]
    ELSE <<>>

\* a and b differ at most in the case of their letters
DifferOnlyInCase(a, b) ==
    /\ Len(a) = Len(b)
    /\ \A i \in DOMAIN a :
           \/ a[i] = b[i]
           \/ \E k \in DOMAIN UpperLetters :
                  {a[i], b[i]} = {UpperLetters[k], LowerLetters[k]}

Searched == ret.op = "search_product_batches"

Listed == ret.op = "get_unique_products"

\* C1: a lookup returns what the lookup of any name that differs from its
\* name only in letter case returns on the same data; with a row valued
\* "Aspirin" in the resolved product column, the lookups of "ASPIRIN" and
\* of "aspirin" both find batches.
C1_CaseInsensitive ==
    Searched =>
        /\ \A other \in ProductNames :
               DifferOnlyInCase(other, ret.product_name) =>
                   search_product_batches(df, column_cache, other) = ret.batches
        /\ (/\ Some(<<"A","s","p","i","r","i","n">>) \in Range(ProductCells)
            /\ ret.product_name \in {<<"A","S","P","I","R","I","N">>, <<"a","s","p","i","r","i","n">>}) => ret.batches # None

C1_Witness ==
    /\ Searched
    /\ ret.product_name = <<"A","S","P","I","R","I","N">>
    /\ Range(ProductCells) = {Some(<<"A","s","p","i","r","i","n">>)}
    /\ ret.batches # None

\* C2: a lookup finds batches whenever some row's product value, trimmed and
\* lower-cased, equals the trimmed and lower-cased name; so every name that
\* the product listing returns finds batches on the same data.
C2_TrimmedComparison ==
    /\ Searched =>
           ((\E r \in DOMAIN ProductCells :
                 /\ ProductCells[r] # None
                 /\ strip(ProductCells[r][1]) # <<>>
                 /\ lower(strip(ProductCells[r][1])) = lower(strip(ret.product_name)))
               => ret.batches # None)
    /\ Listed =>
           \A i \in DOMAIN ret.products :
               search_product_batches(df, column_cache, ret.products[i]) # None

\* the product values that are neither NaN nor blank, trimmed
TrimmedProducts ==
    { strip(ProductCells[r][1]) :
        r \in { q \in DOMAIN ProductCells :
                    /\ ProductCells[q] # None
                    /\ strip(ProductCells[q][1]) # <<>> } }

\* C3: the product listing is strictly ascending (sorted, no two entries
\* equal), holds only non-empty trimmed strings, holds exactly the distinct
\* trimmed non-missing values of the resolved product column, and is empty
\* without data, with an empty data frame or with the product field unresolved.
C3_UniqueProductsSorted ==
    Listed =>
        /\ \A i, j \in DOMAIN ret.products :
               i < j => StrLess(ret.products[i], ret.products[j])
        /\ \A i \in DOMAIN ret.products :
               ret.products[i] # <<>> /\ strip(ret.products[i]) = ret.products[i]
        /\ Range(ret.products) = TrimmedProducts
        /\ (\/ ~df.loaded
            \/ Len(df.rows) = 0
            \/ CacheGet(column_cache, "product") = None) => ret.products = <<>>

C3_Witness ==
    /\ Listed
    /\ Len(df.rows) = 3
    /\ ProductCells = <<Some(<<"a","s","p","i","r","i","n">>), Some(<<" ","A","s","p","i","r","i","n"," ">>), Some(<<"A","s","p","i","r","i","n">>)>>
    /\ ret.products = <<<<"A","s","p","i","r","i","n">>, <<"a","s","p","i","r","i","n">>>>

\* the integer value of the first run of decimal digits of a batch number,
\* 0 without a digit
FirstDigitRunValue(batch_no) ==
    IF \A i \in DOMAIN batch_no : ~IsDigit(batch_no[i]) THEN 0
    ELSE LET first == Min({i \in DOMAIN batch_no : IsDigit(batch_no[i])})
             last  == Min({j \in first..Len(batch_no) :
                              j = Len(batch_no) \/ ~IsDigit(batch_no[j + 1])})
         IN int(SubSeq(batch_no, first, last))

\* the Batch Records of the rows whose product value is the looked up name
\* in lower case, in row order
MatchingRecords ==
    process_batch_data(df, column_cache,
        ProductMask(df, ColumnIndex(df, column_cache["product"][1]), ret.product_name))

BatchNumbers(batches) == [i \in DOMAIN batches |-> batches[i].batch_no]

\* C4: the records a lookup returns are a permutation of the records of the
\* matching rows, ascending by the integer value of the first run of digits
\* of batch_no (0 without digits), records of equal value in row order; the
\* batch numbers B-12, B-2, B-100 come out as B-2, B-12, B-100.
C4_SortedStable ==
    (Searched /\ ret.batches # None) =>
        LET out  == ret.batches[1]
            recs == MatchingRecords
        IN /\ Len(out) = Len(recs)
           /\ \E p \in [DOMAIN out -> DOMAIN recs] :
                  /\ \A i, j \in DOMAIN out : p[i] = p[j] => i = j
                  /\ \A i \in DOMAIN out : out[i] = recs[p[i]]
                  /\ \A i, j \in DOMAIN out :
                         i < j =>
                             LET ki == FirstDigitRunValue(out[i].batch_no)
                                 kj == FirstDigitRunValue(out[j].batch_no)
                             IN ki < kj \/ (ki = kj /\ p[i] < p[j])
           /\ BatchNumbers(recs) = <<<<"B","-","1","2">>, <<"B","-","2">>, <<"B","-","1","0","0">>>>
                  => BatchNumbers(out) = <<<<"B","-","2">>, <<"B","-","1","2">>, <<"B","-","1","0","0">>>>

C4_Witness ==
    /\ Searched
    /\ ret.batches # None
    /\ BatchNumbers(MatchingRecords) = <<<<"B","-","1","2">>, <<"B","-","2">>, <<"B","-","1","0","0">>>>
    /\ BatchNumbers(ret.batches[1]) = <<<<"B","-","2">>, <<"B","-","1","2">>, <<"B","-","1","0","0">>>>

\* the rows that hold the looked up name in the product column, a row with
\* a missing or blank product value never being one
NonBlankMatchingRows ==
    { r \in DOMAIN ProductCells :
          /\ ProductCells[r] # None
          /\ strip(ProductCells[r][1]) # <<>>
          /\ lower(ProductCells[r][1]) = lower(ret.product_name) }

\* C5: a lookup returns None exactly when no data is loaded, the data frame
\* is empty, the product field is unresolved or no row matches the name, a
\* row with a missing or blank product value matching no name; otherwise it
\* returns one record per matching row.
C5_AbsentExactly ==
    Searched =>
        /\ ret.batches = None <=> (~ProductResolved \/ NonBlankMatchingRows = {})
        /\ ret.batches # None =>
               /\ Len(ret.batches[1]) >= 1
               /\ Len(ret.batches[1]) = Cardinality(NonBlankMatchingRows)

\* the positions of the candidates of a field that are a column name
ExactCandidates(field) ==
    { i \in DOMAIN column_mappings[field] :
          \E c \in DOMAIN df.columns :
              df.columns[c] = column_mappings[field][i] }

\* C6: on a data frame with rows, a field with a candidate equal to a column
\* name resolves to the first such candidate in priority order, in the cache
\* and in a call of find_column_name, also when an earlier column contains a
\* candidate as a substring.
C6_ExactMatchWins ==
    ~DfNoneOrEmpty(df) =>
        \A field \in DOMAIN column_mappings :
            ExactCandidates(field) # {} =>
                LET best == column_mappings[field][Min(ExactCandidates(field))]
                IN /\ column_cache[field] = Some(best)
                   /\ (ret.op = "find_column_name" /\ ret.field = field)
                          => ret.column = Some(best)

C6_Witness ==
    /\ ret.op = "find_column_name"
    /\ ret.field = "product"
    /\ df.columns = <<<<"p","r","o","d","u","c","t","_","c","o","d","e">>, <<"n","a","m","e">>>>
    /\ Len(df.rows) = 1
    /\ ret.column = Some(<<"n","a","m","e">>)

\* C7: cleaning a cleaned header returns it unchanged.
C7_CleanIdempotent ==
    Len(cleaned) >= 2 => cleaned[2] = cleaned[1]

\* the formats in the order they are tried: YYYY-MM-DD, DD-MM-YYYY,
\* DD/MM/YYYY, MM/DD/YYYY, DD.MM.YYYY, YYYY.MM.DD
FormatsInOrder ==
    << [sep |-> "-", order |-> <<"Y", "m", "d">>],
       [sep |-> "-", order |-> <<"d", "m", "Y">>],
       [sep |-> "/", order |-> <<"d", "m", "Y">>],
       [sep |-> "/", order |-> <<"m", "d", "Y">>],
       [sep |-> ".", order |-> <<"d", "m", "Y">>],
       [sep |-> ".", order |-> <<"Y", "m", "d">>] >>

\* the text contains, in any letter case, one of #N/A, #NA, N/A, NA
HasNaToken(text) ==
    \E token \in {<<"#","N","/","A">>, <<"#","N","A">>, <<"N","/","A">>, <<"N","A">>} :
        \E i \in 1..(Len(text) - Len(token) + 1) :
            \A k \in DOMAIN token :
                text[i + k - 1] \in {token[k], LowerChar[token[k]][1]}

\* the date-only portion of the raw value: the trimmed text before the
\* first space
DatePortion == SplitSpaceFirst(strip(raw_value))

\* the positions of the formats under which the date-only portion parses
ParsingFormats ==
    {i \in DOMAIN FormatsInOrder : strptime(DatePortion, FormatsInOrder[i]).ok}

\* a text of the shape DD.MM.YYYY
IsDayMonthYear(text) ==
    /\ Len(text) = 10
    /\ \A i \in 1..10 : IF i \in {3, 6} THEN text[i] = "." ELSE IsDigit(text[i])

\* C8: for a non-empty raw value without an NA token whose date-only
\* portion parses under some format, the date formatting returns the date of
\* the first format that parses, as DD.MM.YYYY; "2024-03-05" gives
\* "05.03.2024", "01/02/2024" gives "01.02.2024", and MM/DD/YYYY is used
\* only when DD/MM/YYYY fails.
C8_FirstFormatWins ==
    date_out # None =>
        /\ (/\ strip(raw_value) # <<>>
            /\ ~HasNaToken(raw_value)
            /\ ParsingFormats # {}) =>
               LET date == strptime(DatePortion,
                                    FormatsInOrder[Min(ParsingFormats)])
               IN /\ IsDayMonthYear(date_out[1])
                  /\ int(SubSeq(date_out[1], 1, 2)) = date.day
                  /\ int(SubSeq(date_out[1], 4, 5)) = date.month
                  /\ int(SubSeq(date_out[1], 7, 10)) = date.year
        /\ raw_value = <<"2","0","2","4","-","0","3","-","0","5">> => date_out[1] = <<"0","5",".","0","3",".","2","0","2","4">>
        /\ raw_value = <<"0","1","/","0","2","/","2","0","2","4">> => date_out[1] = <<"0","1",".","0","2",".","2","0","2","4">>

C8_Witness ==
    /\ raw_value = <<"0","1","/","0","2","/","2","0","2","4">>
    /\ date_out = Some(<<"0","1",".","0","2",".","2","0","2","4">>)

\* C9: for a non-empty raw value without an NA token that parses under none
\* of the formats, the date formatting returns the trimmed raw value
\* unchanged.
C9_UnparsedUnchanged ==
    (/\ date_out # None
     /\ strip(raw_value) # <<>>
     /\ ~HasNaToken(raw_value)
     /\ ParsingFormats = {}) => date_out[1] = strip(raw_value)

\* the trimmed raw value with its letters in upper case
TrimmedUpper ==
    [i \in DOMAIN strip(raw_value) |->
        IF strip(raw_value)[i] \in LowerSet
            THEN UpperLetters[IndexOf(LowerLetters, strip(raw_value)[i])]
        ELSE strip(raw_value)[i]]

\* C10: for a raw value that holds an NA token in any letter case, the date
\* formatting and the percentage formatting both return the trimmed,
\* upper-cased raw value ("N/A" gives "N/A", "na" gives "NA"); both return
\* the empty text for the empty raw value.
C10_NaPassThrough ==
    /\ HasNaToken(raw_value) =>
           /\ date_out # None => date_out[1] = TrimmedUpper
           /\ pct_out # None => pct_out[1] = TrimmedUpper
    /\ raw_value = <<>> =>
           /\ date_out # None => date_out[1] = <<>>
           /\ pct_out # None => pct_out[1] = <<>>
    /\ raw_value = <<"N","/","A">> =>
           /\ date_out # None => date_out[1] = <<"N","/","A">>
           /\ pct_out # None => pct_out[1] = <<"N","/","A">>
    /\ raw_value = <<"n","a">> =>
           /\ date_out # None => date_out[1] = <<"N","A">>
           /\ pct_out # None => pct_out[1] = <<"N","A">>

C10_Witness ==
    /\ raw_value = <<"n","/","a"," ","x">>
    /\ date_out = Some(<<"N","/","A"," ","X">>)
    /\ pct_out = Some(<<"N","/","A"," ","X">>)

\* the raw value without its '%' and whitespace characters
PercentText == SubPercentSpace(raw_value)

\* a decimal number: an optional sign, then digits with at most one point
\* among them
IsDecimalNumber(text) ==
    LET body == IF text # <<>> /\ Head(text) \in {"+", "-"} THEN Tail(text)
                ELSE text
    IN /\ \E i \in DOMAIN body : IsDigit(body[i])
       /\ \A i \in DOMAIN body : IsDigit(body[i]) \/ body[i] = "."
       /\ Cardinality({i \in DOMAIN body : body[i] = "."}) <= 1

\* the digits of a text, in order
DigitsOf(text) == SelectSeq(text, IsDigit)

\* how many digits of a decimal number stand after its point
DecimalPlaces(text) ==
    IF \E i \in DOMAIN text : text[i] = "."
        THEN Len(text) - (CHOOSE i \in DOMAIN text : text[i] = ".")
    ELSE 0

\* a text of the shape [-]digits.dd%
IsPercentWithTwoDecimals(text) ==
    LET body == IF text # <<>> /\ Head(text) = "-" THEN Tail(text) ELSE text
        n    == Len(body)
    IN /\ n >= 5
       /\ body[n] = "%"
       /\ body[n - 3] = "."
       /\ \A i \in (1..(n - 1)) \ {n - 3} : IsDigit(body[i])

\* C11: for a non-empty raw value without an NA token whose text without
\* '%' and whitespace is a decimal number, the percentage formatting returns
\* that number with exactly two digits after the point (the nearest
\* hundredth, with the sign of the input) followed by '%'; "98.5%" gives
\* "98.50%" and "  97  " gives "97.00%".
C11_TwoDecimalPercent ==
    pct_out # None =>
        /\ (/\ strip(raw_value) # <<>>
            /\ ~HasNaToken(raw_value)
            /\ IsDecimalNumber(PercentText)) =>
               LET scale == 10 ^ DecimalPlaces(PercentText)
                   value == int(DigitsOf(PercentText))
                   shown == int(DigitsOf(pct_out[1]))
                   diff  == shown * scale - value * 100
               IN /\ IsPercentWithTwoDecimals(pct_out[1])
                  /\ 2 * diff <= scale
                  /\ 2 * diff >= 0 - scale
                  /\ Head(pct_out[1]) = "-" <=> Head(PercentText) = "-"
        /\ raw_value = <<"9","8",".","5","%">> => pct_out[1] = <<"9","8",".","5","0","%">>
        /\ raw_value = <<" "," ","9","7"," "," ">> => pct_out[1] = <<"9","7",".","0","0","%">>

C11_Witness ==
    /\ raw_value = <<"1","2",".","3","4","6">>
    /\ pct_out = Some(<<"1","2",".","3","5","%">>)

\* C12: the percentage formatting returns the empty text whenever the raw
\* value without '%' and whitespace is empty or is literally "nan"; "%" and
\* "nan" both give "".
C12_EmptyOrNanDropped ==
    (/\ pct_out # None
     /\ PercentText \in {<<>>, <<"n", "a", "n">>}) => pct_out[1] = <<>>

\* a bulk run takes a step: one more product has been processed
Processed == /\ session.running
             /\ Len(session'.status_text) = Len(session.status_text) + 1

\* a bulk run ends
RunEnds == session.running /\ ~session'.running

\* the lookup of a product yields no batches
NoBatches(product) == search_product_batches(df, column_cache, product) = None

\* the template can be filled: it opens and holds a table
TemplateUsable == /\ template_file.exists
                  /\ template_file.valid
                  /\ template_file.tables # <<>>

\* C13: a bulk run processes the selected products one by one in list
\* order and records one result for each; it ends only when every selected
\* product has been processed and has a result, whatever failed before, and
\* then reports every result as a success or as a failure.  For three
\* products of which only the second has no batches (usable template, no
\* exception), the run reports 2 successes and 1 failure and the third
\* product is processed.
C13_BulkContinuesOnError ==
    [][/\ Processed =>
            LET i == Len(session.status_text) + 1
            IN /\ Len(session.results) = Len(session.status_text)
               /\ i <= Len(session.selected_products)
               /\ session'.status_text[i] = session.selected_products[i]
               /\ ret'.product_name = session.selected_products[i]
               /\ session'.results = Append(session.results, ret'.result)
               /\ session'.selected_products = session.selected_products
       /\ RunEnds =>
            /\ session'.status_text = session.selected_products
            /\ Len(session'.results) = Len(session.selected_products)
            /\ Len(session'.successful) + Len(session'.failed)
                 = Len(session'.results)
            /\ \A i \in DOMAIN session'.successful :
                   session'.successful[i].success
            /\ \A i \in DOMAIN session'.failed : ~session'.failed[i].success
            /\ (/\ Len(session.selected_products) = 3
                /\ {i \in 1..3 : NoBatches(session.selected_products[i])} = {2}
                /\ TemplateUsable
                /\ \A i \in 1..3 : session'.results[i].error # "exception")
                  => /\ Len(session'.successful) = 2
                     /\ Len(session'.failed) = 1
                     /\ session'.status_text[3] = session.selected_products[3]
      ]_vars

\* a run over three products has ended with the second one failed and the
\* other two generated
C13_Witness ==
    /\ ~session.running
    /\ Len(session.status_text) = 3
    /\ Len(session.successful) = 2
    /\ Len(session.failed) = 1
    /\ ~session.results[2].success
    /\ session.results[3].success

\* the files of the output folder at a path
FilesAt(files, filepath) == {f \in files : f.filepath = filepath}

C16_FailedLoadReported ==
    (\/ session.data_loaded
     \/ session.message = "Application initialized successfully!")
        => df.loaded

\* the results of the bulk run, as far as it went, that are successes
Successes == {i \in DOMAIN session.results : session.results[i].success}

\* C17: in a bulk run every successfully generated product has the output
\* file {sanitized product name}_{YYYY-MM-DD}.docx, and two distinct
\* products of the run never have the same file path.
C17_OneFilePerProduct ==
    /\ \A i \in Successes :
          session.results[i].filename[1]
            = safe_name(session.status_text[i]) \o <<"_">> \o current_date
                \o <<".", "d", "o", "c", "x">>
    /\ \A i, j \in Successes :
          session.status_text[i] # session.status_text[j]
            => session.results[i].filepath # session.results[j].filepath

\* a step that is a call of load_excel_data
LoadStep == /\ ret'.op = "load_excel_data"
            /\ excel_file' = excel_file
            /\ column_mappings' = column_mappings

\* the headers of the Dataset held
Headers == Range(df.columns)

\* C15: after every successful load, a re-load on the same generator
\* included, the column cache holds for every configured field the result
\* of resolving its candidates against the cleaned headers of the Dataset
\* just loaded, and holds no other entry.
C15_MappingRecomputed ==
    [][(LoadStep /\ ret'.ok) =>
         /\ DOMAIN column_cache' = DOMAIN column_mappings
         /\ \A field \in DOMAIN column_mappings :
               column_cache'[field]
                 = find_column_name(df', column_mappings[field])
      ]_vars

\* C20: in every reachable state every cached column is absent or a header
\* of the Dataset held, and a failed load leaves the Dataset and the
\* column cache as they were before the call.
C20_DatasetMappingConsistent ==
    /\ [](\A field \in DOMAIN column_cache :
             \/ column_cache[field] = None
             \/ column_cache[field][1] \in Headers)
    /\ [][(LoadStep /\ ~ret'.ok) =>
            /\ df' = df
            /\ column_cache' = column_cache]_vars

\* a step that is a lookup: a call of search_product_batches,
\* preview_product_data or get_unique_products
LookupStep ==
    /\ ret'.op \in {"search_product_batches", "preview_product_data",
                    "get_unique_products"}
    /\ ret' # ret

\* what findBatches returns for a product name on a Dataset and Field
\* Mapping
FindBatches(d, cache, product_name) ==
    search_product_batches(d, cache, product_name)

\* C18: preview_product_data returns exactly what search_product_batches
\* returns for the same Dataset and product name; a lookup (preview,
\* search or product list) leaves the Dataset, the column cache and the
\* candidate configuration as they were, and what it returned is what the
\* same call returns in the state it leaves, so repeating lookups between
\* two loads gives the same results.
C18_PreviewReadOnlyAlias ==
    [][LookupStep =>
         /\ df' = df
         /\ column_cache' = column_cache
         /\ column_mappings' = column_mappings
         /\ sheet_name' = sheet_name
         /\ ret'.op \in {"search_product_batches", "preview_product_data"} =>
               /\ ret'.batches = FindBatches(df, column_cache,
                                             ret'.product_name)
               /\ ret'.batches = FindBatches(df', column_cache',
                                             ret'.product_name)
         /\ ret'.op = "get_unique_products" =>
               /\ ret'.products = get_unique_products(df, column_cache)
               /\ ret'.products = get_unique_products(df', column_cache')
      ]_vars

\* a preview that returned two Batch Records
C18_Witness ==
    /\ ret.op = "preview_product_data"
    /\ ret.batches # None
    /\ Len(ret.batches[1]) = 2

\* one text occurs in another
Occurs(part, text) ==
    \E i \in 1..(Len(text) - Len(part) + 1) :
        SubSeq(text, i, i + Len(part) - 1) = part

\* the columns whose lower-cased header contains the lower-cased text of a
\* candidate of the field
ContainingColumns(field) ==
    { c \in DOMAIN df.columns :
          \E i \in DOMAIN column_mappings[field] :
              Occurs(lower(column_mappings[field][i]), lower(df.columns[c])) }

\* C19: on a data frame with rows, a field none of whose candidates equals
\* a header resolves to the first header in header order that contains a
\* candidate, whatever the priority of that candidate, and to None when no
\* header contains one; this in the cache and in a call of
\* find_column_name.
C19_SubstringHeaderOrder ==
    ~DfNoneOrEmpty(df) =>
        \A field \in DOMAIN column_mappings :
            ExactCandidates(field) = {} =>
                LET expected ==
                        IF ContainingColumns(field) = {} THEN None
                        ELSE Some(df.columns[Min(ContainingColumns(field))])
                IN /\ column_cache[field] = expected
                   /\ (ret.op = "find_column_name" /\ ret.field = field)
                          => ret.column = expected

\* the first header contains the fourth candidate of the product, the
\* second header the third candidate
C19_Witness ==
    /\ ret.op = "find_column_name"
    /\ ret.field = "product"
    /\ df.columns = <<<<"i","t","e","m","_","n","a","m","e">>, <<"p","r","o","d","u","c","t","_","c","o","d","e">>>>
    /\ Len(df.rows) = 1
    /\ ret.column = Some(<<"i","t","e","m","_","n","a","m","e">>)

====
